---- MODULE Spec2Model ----
(***************************************************************************)
(* Ground-station controller of the wildfire simulation (controller.py):   *)
(* two TCP listeners (thermal, imagery), one handler thread per accepted   *)
(* connection, the fusion engine run under the store lock, the two logs,   *)
(* and the periodic health monitor.                                        *)
(*                                                                         *)
(* Clock values are whole seconds.  The *_ns fields of the program hold    *)
(* the same instants in nanoseconds; the factor 1e9 between rx_ns and      *)
(* now_s is dropped, so one unit of every time field is one second.        *)
(***************************************************************************)
EXTENDS Integers, Sequences, FiniteSets, TLC

----------------------------------------------------------------------------
\* Program constants (controller.py)
TEMP_THRESHOLD == 100
TIME_WINDOW_S == 2
EXPECTED_THERMAL_HZ == 2
EXPECTED_IMAGERY_HZ == 2
MONITOR_WINDOW_S == 10
\* DROP_STOP_THRESHOLD = 0.50, kept as a percentage
DROP_STOP_THRESHOLD_PCT == 50
\* time.sleep(5) before the monitor's loop
MONITOR_START_DELAY_S == 5

\* Bounds of the model
MaxConns == 2
MaxLines == 3
MaxLate == 1
\* the last clock reading: the second deadline of the monitor, woken late
MaxTime == 1 + MONITOR_START_DELAY_S + 2 * MONITOR_WINDOW_S + MaxLate

Feeds == {"thermal", "imagery"}
Conns == 1..MaxConns
\* Thread id of the monitoring thread (connection handlers are 1..MaxConns)
MonitorId == MaxConns + 1

----------------------------------------------------------------------------
\* JSON values as the program sees them after json.loads

\* Optional[int] / Optional[float]: <<>> is None, <<v>> is the value v
None == <<>>
Some(v) == <<v>>
IsNone(o) == o = <<>>
Val(o) == o[1]

\* A value stored under a key of a message
Absent == [t |-> "absent", v |-> 0]
Num(n) == [t |-> "int", v |-> n]
\* a non-numeric string such as "abc"
Text == [t |-> "str", v |-> 0]
\* a float infinity (the JSON number 1e999)
Inf == [t |-> "inf", v |-> 0]

\* "data": absent, a flat list (rows = <<leaves>>), a nested list, a list of
\* strings, or a value that is no list
NoData == [t |-> "absent", rows |-> <<>>]
Flat(leaves) == [t |-> "1d", rows |-> <<leaves>>]
Grid(rows) == [t |-> "2d", rows |-> rows]
TextList == [t |-> "1d_text", rows |-> <<>>]
ScalarData == [t |-> "scalar", rows |-> <<>>]

\* "detections": absent, a list of detection objects (their labels), or a
\* value that is no list
NoDets == [t |-> "absent", labels |-> <<>>]
Dets(labels) == [t |-> "list", labels |-> labels]
ScalarDets == [t |-> "scalar", labels |-> <<>>]

\* A parsed message: a JSON object with the recognised keys, or another JSON
\* value (typ = "list": a non-empty JSON array)
Dict(seq, tx, proc, data, dets) ==
    [typ |-> "dict", seq |-> seq, tx_ns |-> tx, proc_ns |-> proc,
     data |-> data, detections |-> dets]
EmptyDict == Dict(Absent, Absent, Absent, NoData, NoDets)
ListMsg == [EmptyDict EXCEPT !.typ = "list"]
NoneMsg == [EmptyDict EXCEPT !.typ = "None"]

\* Truthy without the test: evaluate runs on whatever is stored
Truthy_NoGuard(m) == TRUE

\* Python truth value of a message (None and {} are falsy)
Truthy(m) ==
    CASE m.typ = "None" -> FALSE
      [] m.typ = "list" -> TRUE
      [] OTHER -> \/ m.seq.t # "absent" \/ m.tx_ns.t # "absent"
                  \/ m.proc_ns.t # "absent" \/ m.data.t # "absent"
                  \/ m.detections.t # "absent"

----------------------------------------------------------------------------
\* Floats that can be infinite: max_temp
NegInf == [k |-> "-inf", v |-> 0]
Fin(n) == [k |-> "num", v |-> n]
FloatGT(x, n) == x.k = "num" /\ x.v > n

Max2(a, b) == IF a >= b THEN a ELSE b
Min2(a, b) == IF a <= b THEN a ELSE b
Abs(a) == IF a < 0 THEN 0 - a ELSE a

RECURSIVE SeqMax(_)
SeqMax(s) == IF Len(s) = 1 THEN s[1] ELSE Max2(s[1], SeqMax(Tail(s)))

\* clamp01 that returns its argument
clamp01_NoClamp(x) == x

\* clamp01: a drop rate is the fraction n/d with d > 0
clamp01(x) ==
    IF x.n < 0 THEN [n |-> 0, d |-> 1]
    ELSE IF x.n > x.d THEN [n |-> 1, d |-> 1]
    ELSE x

\* prune_old: pop from the left while the head is older than the cutoff
RECURSIVE prune_old(_, _, _)
prune_old(arrivals, now_s, window_s) ==
    IF arrivals # <<>> /\ arrivals[1] < now_s - window_s
    THEN prune_old(Tail(arrivals), now_s, window_s)
    ELSE arrivals

\* safe_max_temp: [exc, max, shape]; exc is the exception raised, "" if none
safe_max_temp(d) ==
    CASE d.t = "absent" -> [exc |-> "", max |-> NegInf, shape |-> "none"]
      [] d.t = "2d" ->
           LET rows == SelectSeq(d.rows, LAMBDA r : r # <<>>)
           IN IF rows = <<>>
              THEN [exc |-> "ValueError", max |-> NegInf, shape |-> "2d"]
              ELSE [exc |-> "",
                    max |-> Fin(SeqMax([k \in 1..Len(rows) |-> SeqMax(rows[k])])),
                    shape |-> "2d"]
      [] d.t = "1d" ->
           IF d.rows[1] = <<>>
           THEN [exc |-> "", max |-> NegInf, shape |-> "1d"]
           ELSE [exc |-> "", max |-> Fin(SeqMax(d.rows[1])), shape |-> "1d"]
      [] d.t = "1d_text" -> [exc |-> "ValueError", max |-> NegInf, shape |-> "1d"]
      [] OTHER -> [exc |-> "", max |-> NegInf, shape |-> "unknown"]

\* imagery_has_fire looking at the first detection only
imagery_has_fire_FirstOnly(dets) ==
    dets.t = "list" /\ dets.labels # <<>> /\ dets.labels[1] = "fire"

\* imagery_has_fire
imagery_has_fire(dets) ==
    /\ dets.t = "list"
    /\ \E k \in 1..Len(dets.labels) : dets.labels[k] = "fire"

\* int(m.get(key, 0) or 0): [exc, val]
PyInt(x) ==
    CASE x.t = "absent" -> [exc |-> "", val |-> 0]
      [] x.t = "int" -> [exc |-> "", val |-> x.v]
      [] x.t = "str" -> [exc |-> "ValueError", val |-> 0]
      [] OTHER -> [exc |-> "OverflowError", val |-> 0]

\* m.get(...) on a value that is no dict raises AttributeError
GetExc(m) == IF m.typ = "dict" THEN "" ELSE "AttributeError"

\* the first exception raised by a sequence of operations
RECURSIVE FirstExc(_)
FirstExc(s) ==
    IF s = <<>> THEN ""
    ELSE IF s[1] # "" THEN s[1] ELSE FirstExc(Tail(s))

\* except (KeyError, TypeError, ValueError)
Caught(exc) == exc \in {"KeyError", "TypeError", "ValueError"}

\* `x or 0` for an Optional[int]
OrZero(o) == IF IsNone(o) THEN 0 ELSE Val(o)

\* Decision with the temperature compared by >= (a threshold reading fires)
Decision_AtThreshold(max_temp, fire, dt_s) ==
    max_temp.k = "num" /\ max_temp.v >= TEMP_THRESHOLD /\ fire
      /\ dt_s <= TIME_WINDOW_S

\* The decision of one evaluation
Decision(max_temp, fire, dt_s) ==
    FloatGT(max_temp, TEMP_THRESHOLD) /\ fire /\ dt_s <= TIME_WINDOW_S

\* SendTime falling back only on a negative tx_ns
SendTime_ZeroKept(tx, rx) == IF tx < 0 THEN OrZero(rx) ELSE tx

\* The logical send time of a feed: tx_ns if positive, else the arrival time
SendTime(tx, rx) == IF tx <= 0 THEN OrZero(rx) ELSE tx

\* the network delay without its clamp at zero
net_ns_Unclamped(rx_ns, tx) == rx_ns - tx

\* int(max(0, rx_ns - tx)): the one-way network delay of a feed
net_ns(rx_ns, tx) == Max2(0, rx_ns - tx)

\* evaluate, lines 142-215: the record built from the snapshot (t, i), or the
\* exception raised on the way
EvalBody(t, i, t_rx, i_rx, start_ns, end_ns, fid) ==
    LET tt == PyInt(t.tx_ns)
        ii == PyInt(i.tx_ns)
        t_tx == SendTime(tt.val, t_rx)
        i_tx == SendTime(ii.val, i_rx)
        dt_s == Abs(t_tx - i_tx)
        smt == safe_max_temp(t.data)
        dets == i.detections
        fire == imagery_has_fire(dets)
        tp == PyInt(t.proc_ns)
        ip == PyInt(i.proc_ns)
        thermal_rx_ns == OrZero(t_rx)
        imagery_rx_ns == OrZero(i_rx)
        exc == FirstExc(<<GetExc(t), tt.exc, GetExc(i), ii.exc, smt.exc,
                          tp.exc, ip.exc>>)
    IN [exc |-> exc,
        rec |-> [fusion_id |-> fid,
                 fusion_done_ns |-> end_ns,
                 thermal_tx_ns |-> t_tx,
                 imagery_tx_ns |-> i_tx,
                 thermal_rx_ns |-> thermal_rx_ns,
                 imagery_rx_ns |-> imagery_rx_ns,
                 thermal_proc_ns |-> tp.val,
                 imagery_proc_ns |-> ip.val,
                 thermal_net_ns |-> net_ns(thermal_rx_ns, t_tx),
                 imagery_net_ns |-> net_ns(imagery_rx_ns, i_tx),
                 fusion_proc_ns |-> end_ns - start_ns,
                 dt_s |-> dt_s,
                 max_temp |-> smt.max,
                 imagery_fire |-> fire,
                 decision |-> Decision(smt.max, fire, dt_s),
                 thermal_shape |-> smt.shape,
                 num_detections |-> IF dets.t = "list" THEN Len(dets.labels) ELSE 0,
                 e2e_ns |-> end_ns - Min2(t_tx, i_tx)]]

\* The row of the tabular log written from a record
CsvRow(rec) ==
    [fusion_id |-> rec.fusion_id, dt_s |-> rec.dt_s, max_temp |-> rec.max_temp,
     imagery_fire |-> rec.imagery_fire, decision |-> rec.decision,
     thermal_shape |-> rec.thermal_shape, num_detections |-> rec.num_detections]

NoRec == EvalBody(EmptyDict, EmptyDict, None, None, 0, 0, 0).rec

----------------------------------------------------------------------------
VARIABLES
    now,                    \* the wall clock (time.time(), utc_ns())
    last_thermal, last_imagery,
    last_thermal_rx_ns, last_imagery_rx_ns,
    lock,                   \* the set of threads holding the lock (at most one)
    thermal_arrivals, imagery_arrivals,
    first_thermal_seen_s, first_imagery_seen_s,
    thermal_server_up, imagery_server_up,
    fusion_id,
    logfile,                \* the CSV handle: [open, buf] (buf: rows not flushed)
    csv_file,               \* rows of fusion_log.csv on disk (without the header)
    jsonl_file,             \* records of latency_log.jsonl
    server_pc,              \* per feed: where the listener thread is
    conn,                   \* per connection: the handler thread
    nlines,                 \* lines taken off the wire so far (blank ones apart)
    frame,                  \* locals of the evaluate in progress
    mon,                    \* the monitoring thread
    wire                    \* a byte stream being read by recv_lines

shared == <<last_thermal, last_imagery, last_thermal_rx_ns, last_imagery_rx_ns,
            thermal_arrivals, imagery_arrivals,
            first_thermal_seen_s, first_imagery_seen_s>>
flags == <<thermal_server_up, imagery_server_up>>
logs == <<fusion_id, logfile, csv_file, jsonl_file>>
vars == <<now, shared, lock, flags, logs, server_pc, conn, nlines, frame, mon, wire>>

\* Per-feed views of the module-level globals
Last(f) == IF f = "thermal" THEN last_thermal ELSE last_imagery
LastRx(f) == IF f = "thermal" THEN last_thermal_rx_ns ELSE last_imagery_rx_ns
Arrivals(f) == IF f = "thermal" THEN thermal_arrivals ELSE imagery_arrivals
FirstSeen(f) == IF f = "thermal" THEN first_thermal_seen_s ELSE first_imagery_seen_s
ServerUp(f) == IF f = "thermal" THEN thermal_server_up ELSE imagery_server_up
ExpectedHz(f) == IF f = "thermal" THEN EXPECTED_THERMAL_HZ ELSE EXPECTED_IMAGERY_HZ

NoConn ==
    [feed |-> "none", pc |-> "unborn", msg |-> NoneMsg, rx_ns |-> 0,
     nbad |-> 0, ncalls |-> 0]

NoSample == [drop |-> None, recv |-> 0, exp |-> 0]

\* no byte stream is followed
NoWire == [pc |-> "none", all |-> <<>>, rest |-> <<>>, buf |-> <<>>, out |-> <<>>]

Init ==
    /\ wire = NoWire
    /\ now = 1
    /\ last_thermal = NoneMsg /\ last_imagery = NoneMsg
    /\ last_thermal_rx_ns = None /\ last_imagery_rx_ns = None
    /\ lock = {}
    /\ thermal_arrivals = <<>> /\ imagery_arrivals = <<>>
    /\ first_thermal_seen_s = None /\ first_imagery_seen_s = None
    /\ thermal_server_up = FALSE /\ imagery_server_up = FALSE
    /\ fusion_id = 0
    /\ logfile = [open |-> TRUE, buf |-> <<>>]
    /\ csv_file = <<>>
    /\ jsonl_file = <<>>
    /\ server_pc = [f \in Feeds |-> "start"]
    /\ conn = [c \in Conns |-> NoConn]
    /\ nlines = 0
    /\ wire = NoWire
    /\ frame = NoRec
    /\ mon = [pc |-> "sleep", due |-> now + MONITOR_START_DELAY_S + MONITOR_WINDOW_S,
              now_s |-> 0, thermal |-> NoSample, imagery |-> NoSample,
              stop |-> "none"]

----------------------------------------------------------------------------
\* Lines on the wire: a blank line, a line json.loads rejects with
\* JSONDecodeError (such as `not json`), a line of brackets nested deeper than
\* the interpreter's recursion limit, or JSON text
BlankLine == [kind |-> "blank", msg |-> NoneMsg]
BadLine == [kind |-> "bad", msg |-> NoneMsg]
DeepLine == [kind |-> "deep", msg |-> NoneMsg]
Json(m) == [kind |-> "json", msg |-> m]

\* json.loads(line): [exc, msg]
json_loads(line) ==
    CASE line.kind = "json" -> [exc |-> "", msg |-> line.msg]
      [] line.kind = "deep" -> [exc |-> "RecursionError", msg |-> NoneMsg]
      [] OTHER -> [exc |-> "JSONDecodeError", msg |-> NoneMsg]

\* The messages the producers send in the full-system specification
GoodMsg(f) ==
    IF f = "thermal" THEN Dict(Absent, Absent, Absent, Flat(<<150>>), NoDets)
    ELSE Dict(Absent, Absent, Absent, NoData, Dets(<<"fire">>))
SpecLines(f) ==
    {BlankLine, BadLine} \cup {Json(GoodMsg(f))}

----------------------------------------------------------------------------
\* server() that sets the feed's server_up flag before it binds
server_FlagBeforeBind(f, bind_ok) ==
    /\ server_pc[f] = "start"
    /\ server_pc' = [server_pc EXCEPT ![f] = IF bind_ok THEN "accept" ELSE "down"]
    /\ thermal_server_up' = (thermal_server_up \/ f = "thermal")
    /\ imagery_server_up' = (imagery_server_up \/ f = "imagery")
    /\ UNCHANGED <<wire, nlines, now, shared, lock, logs, conn, frame, mon>>

\* server(): bind, listen, set the feed's server_up flag; on OSError return
server(f, bind_ok) ==
    /\ server_pc[f] = "start"
    /\ server_pc' = [server_pc EXCEPT ![f] = IF bind_ok THEN "accept" ELSE "down"]
    /\ thermal_server_up' = (thermal_server_up \/ (bind_ok /\ f = "thermal"))
    /\ imagery_server_up' = (imagery_server_up \/ (bind_ok /\ f = "imagery"))
    /\ UNCHANGED <<wire, nlines, now, shared, lock, logs, conn, frame, mon>>

\* server(): s.accept() and the start of a handler thread
Accept(f) ==
    /\ server_pc[f] = "accept"
    /\ \E c \in Conns :
         /\ conn[c].pc = "unborn"
         /\ \A b \in Conns : conn[b].pc = "unborn" =>
               IF f = "thermal" THEN c <= b ELSE c >= b
         /\ conn' = [conn EXCEPT ![c] = [NoConn EXCEPT !.feed = f, !.pc = "recv"]]
    /\ UNCHANGED <<wire, nlines, now, shared, lock, flags, logs, server_pc, frame, mon>>

\* recv_lines: the handler's state after one line of the stream. Only
\* json.JSONDecodeError is caught; any other exception of json.loads ends the
\* thread. nbad counts the lines json.loads has rejected, ncalls the calls of
\* on_msg.
recv_line(h, line, t) ==
    IF line.kind = "blank" THEN h
    ELSE IF json_loads(line).exc = "JSONDecodeError"
    THEN [h EXCEPT !.nbad = @ + 1]
    ELSE IF json_loads(line).exc # ""
    THEN [h EXCEPT !.pc = "dead", !.nbad = @ + 1]
    ELSE [h EXCEPT !.pc = "wait", !.msg = json_loads(line).msg, !.rx_ns = t,
                   !.ncalls = @ + 1]

\* ReadLine by a reader that does not wait for on_msg to return
ReadLine_Pipelined(c, line) ==
    /\ conn[c].pc \in {"recv", "wait"}
    /\ nlines < MaxLines
    /\ conn' = [conn EXCEPT ![c] = recv_line(conn[c], line, now)]
    /\ nlines' = IF line.kind = "blank" THEN nlines ELSE nlines + 1
    /\ UNCHANGED <<wire, now, shared, lock, flags, logs, server_pc, frame, mon>>

\* recv_lines: one line taken from the buffer
ReadLine(c, line) ==
    /\ conn[c].pc = "recv"
    /\ nlines < MaxLines
    /\ conn' = [conn EXCEPT ![c] = recv_line(conn[c], line, now)]
    /\ nlines' = IF line.kind = "blank" THEN nlines ELSE nlines + 1
    /\ UNCHANGED <<wire, now, shared, lock, flags, logs, server_pc, frame, mon>>

\* ConnEOF that also ends the accept loop of the connection's feed
ConnEOF_StopsListener(c) ==
    /\ conn[c].pc = "recv"
    /\ conn' = [conn EXCEPT ![c] = [NoConn EXCEPT !.pc = "closed"]]
    /\ server_pc' = [server_pc EXCEPT ![conn[c].feed] = "down"]
    /\ UNCHANGED <<wire, nlines, now, shared, lock, flags, logs, frame, mon>>

\* recv_lines: conn.recv returns b"" and the handler returns
ConnEOF(c) ==
    /\ conn[c].pc = "recv"
    /\ conn' = [conn EXCEPT ![c] = [NoConn EXCEPT !.pc = "closed"]]
    /\ UNCHANGED <<wire, nlines, now, shared, lock, flags, logs, server_pc, frame, mon>>

\* HandlerAcquire without the lock: on_msg runs its body unguarded
HandlerAcquire_NoLock(c) ==
    /\ conn[c].pc = "wait"
    /\ conn' = [conn EXCEPT ![c].pc = "locked"]
    /\ UNCHANGED <<wire, nlines, now, shared, lock, flags, logs, server_pc, frame, mon>>

\* on_msg: `with lock:` entered
HandlerAcquire(c) ==
    /\ conn[c].pc = "wait"
    /\ lock = {}
    /\ lock' = {c}
    /\ conn' = [conn EXCEPT ![c].pc = "locked"]
    /\ UNCHANGED <<wire, nlines, now, shared, flags, logs, server_pc, frame, mon>>

\* How a thread leaves evaluate and on_msg: back to recv_lines, or dead when
\* the exception is not caught by evaluate
AfterEval(h, exc) ==
    [h EXCEPT !.pc = IF exc = "" \/ Caught(exc) THEN "recv" ELSE "dead",
              !.msg = NoneMsg, !.rx_ns = 0]

\* on_msg keeping the fields of the old message that the new one lacks
supersede_Merged(old, msg) ==
    IF old.typ = "dict" /\ msg.typ = "dict"
    THEN [msg EXCEPT !.seq = IF @.t = "absent" THEN old.seq ELSE @,
                     !.tx_ns = IF @.t = "absent" THEN old.tx_ns ELSE @,
                     !.proc_ns = IF @.t = "absent" THEN old.proc_ns ELSE @]
    ELSE msg

\* on_msg: `last_thermal = msg`, the new message takes the place of the old
supersede(old, msg) == msg

\* evaluate with the log writes ahead of the computation that can fail
reaches_log_BeforeFailure(noop, exc) == ~noop

\* evaluate reaches csv_writer.writerow: it has not returned at the guard and
\* nothing has raised in lines 141-182
reaches_log(noop, exc) == ~noop /\ exc = ""

\* on_msg setting the first-seen time at every message
first_seen_Overwrite(seen_s, now_s) == Some(now_s)

\* on_msg: `if first_thermal_seen_s is None: first_thermal_seen_s = now_s`
first_seen(seen_s, now_s) == IF IsNone(seen_s) THEN Some(now_s) ELSE seen_s

\* on_msg with lock.acquire() before and lock.release() after the body, which
\* an exception leaving the body skips
with_lock_exit_OnReturnOnly(holder, exc) ==
    IF exc = "" \/ Caught(exc) THEN {} ELSE holder

\* on_msg: the end of `with lock:`; the lock is released when the body
\* returns and when an exception leaves it
with_lock_exit(holder, exc) == {}

\* on_msg under the lock (lines 232-237) and evaluate up to csv_writer.writerow
HandlerUpdate(c) ==
    LET f == conn[c].feed
        msg == conn[c].msg
        rx_ns == conn[c].rx_ns
        now_s == rx_ns
        t == IF f = "thermal" THEN msg ELSE last_thermal
        i == IF f = "imagery" THEN msg ELSE last_imagery
        t_rx == IF f = "thermal" THEN Some(rx_ns) ELSE last_thermal_rx_ns
        i_rx == IF f = "imagery" THEN Some(rx_ns) ELSE last_imagery_rx_ns
        ev == EvalBody(t, i, t_rx, i_rx, now, now, fusion_id)
        noop == ~Truthy(t) \/ ~Truthy(i)
        exc == IF noop THEN ""
               ELSE IF ev.exc # "" THEN ev.exc
               ELSE IF ~logfile.open THEN "ValueError" ELSE ""
        written == reaches_log(noop, exc)
    IN /\ conn[c].pc = "locked"
       /\ IF f = "thermal"
          THEN /\ first_thermal_seen_s' = first_seen(first_thermal_seen_s, now_s)
               /\ last_thermal' = supersede(last_thermal, msg)
               /\ last_thermal_rx_ns' = Some(rx_ns)
               /\ thermal_arrivals' =
                     prune_old(Append(thermal_arrivals, now_s), now_s, MONITOR_WINDOW_S)
               /\ UNCHANGED <<first_imagery_seen_s, last_imagery,
                              last_imagery_rx_ns, imagery_arrivals>>
          ELSE /\ first_imagery_seen_s' = first_seen(first_imagery_seen_s, now_s)
               /\ last_imagery' = supersede(last_imagery, msg)
               /\ last_imagery_rx_ns' = Some(rx_ns)
               /\ imagery_arrivals' =
                     prune_old(Append(imagery_arrivals, now_s), now_s, MONITOR_WINDOW_S)
               /\ UNCHANGED <<first_thermal_seen_s, last_thermal,
                              last_thermal_rx_ns, thermal_arrivals>>
       /\ IF written
          THEN /\ logfile' = [logfile EXCEPT !.buf = Append(@, CsvRow(ev.rec))]
               /\ frame' = ev.rec
               /\ conn' = [conn EXCEPT ![c].pc = "flush", ![c].msg = NoneMsg,
                                       ![c].rx_ns = 0]
               /\ UNCHANGED lock
          ELSE /\ conn' = [conn EXCEPT ![c] = AfterEval(@, exc)]
               /\ lock' = with_lock_exit(lock, exc)
               /\ UNCHANGED <<logfile, frame>>
       /\ UNCHANGED <<wire, nlines, now, flags, fusion_id, csv_file, jsonl_file, server_pc, mon>>

\* HandlerFlush with the JSONL append moved out of `with lock:`
HandlerFlush_ReleasesLock(c) ==
    /\ conn[c].pc = "flush"
    /\ IF logfile.open
       THEN /\ csv_file' = csv_file \o logfile.buf
            /\ logfile' = [logfile EXCEPT !.buf = <<>>]
            /\ conn' = [conn EXCEPT ![c].pc = "jsonl"]
            /\ lock' = {}
            /\ UNCHANGED frame
       ELSE /\ conn' = [conn EXCEPT ![c] = AfterEval(@, "ValueError")]
            /\ lock' = {}
            /\ frame' = NoRec
            /\ UNCHANGED <<csv_file, logfile>>
    /\ UNCHANGED <<wire, nlines, now, shared, flags, fusion_id, jsonl_file, server_pc, mon>>

\* evaluate: logfile.flush() (ValueError on a closed file, caught by evaluate)
HandlerFlush(c) ==
    /\ conn[c].pc = "flush"
    /\ IF logfile.open
       THEN /\ csv_file' = csv_file \o logfile.buf
            /\ logfile' = [logfile EXCEPT !.buf = <<>>]
            /\ conn' = [conn EXCEPT ![c].pc = "jsonl"]
            /\ UNCHANGED <<lock, frame>>
       ELSE /\ conn' = [conn EXCEPT ![c] = AfterEval(@, "ValueError")]
            /\ lock' = {}
            /\ frame' = NoRec
            /\ UNCHANGED <<csv_file, logfile>>
    /\ UNCHANGED <<wire, nlines, now, shared, flags, fusion_id, jsonl_file, server_pc, mon>>

\* HandlerJsonl without `fusion_id += 1`
HandlerJsonl_NoIncrement(c) ==
    /\ conn[c].pc = "jsonl"
    /\ jsonl_file' = Append(jsonl_file, frame)
    /\ frame' = NoRec
    /\ lock' = {}
    /\ conn' = [conn EXCEPT ![c].pc = "recv"]
    /\ UNCHANGED <<wire, nlines, now, shared, flags, fusion_id, logfile, csv_file,
                   server_pc, mon>>

\* evaluate: the JSONL append, fusion_id += 1, and the end of `with lock:`
HandlerJsonl(c) ==
    /\ conn[c].pc = "jsonl"
    /\ jsonl_file' = Append(jsonl_file, frame)
    /\ fusion_id' = fusion_id + 1
    /\ frame' = NoRec
    /\ lock' = {}
    /\ conn' = [conn EXCEPT ![c].pc = "recv"]
    /\ UNCHANGED <<wire, nlines, now, shared, flags, logfile, csv_file, server_pc, mon>>

----------------------------------------------------------------------------
\* _stream_drop_stats without the `first_seen_s is None` guard: a feed never
\* seen is measured over the whole window
_stream_drop_stats_NoStartGuard(arrivals, expected_hz, first_seen_s, now_s, window_s) ==
    LET effective_window ==
            IF IsNone(first_seen_s) THEN window_s
            ELSE Min2(window_s, Max2(0, now_s - Val(first_seen_s)))
        pruned == prune_old(arrivals, now_s, window_s)
        recv_count == Len(pruned)
        expected_count == expected_hz * effective_window
    IN IF effective_window <= 0
       THEN [drop |-> None, recv |-> 0, exp |-> 0, arrivals |-> arrivals]
       ELSE IF expected_count <= 0
       THEN [drop |-> None, recv |-> recv_count, exp |-> expected_count,
             arrivals |-> pruned]
       ELSE [drop |-> Some(clamp01([n |-> expected_count - recv_count,
                                     d |-> expected_count])),
             recv |-> recv_count, exp |-> expected_count, arrivals |-> pruned]

\* the whole window whatever the age of the feed
effective_window_of_WholeWindow(first_seen_s, now_s, window_s) == window_s

\* effective_window = min(window_s, max(0.0, now_s - first_seen_s))
effective_window_of(first_seen_s, now_s, window_s) ==
    Min2(window_s, Max2(0, now_s - Val(first_seen_s)))

\* _stream_drop_stats: [drop, recv, exp] and the arrivals it leaves
\* (drop: None, or the fraction n/d)
_stream_drop_stats(arrivals, expected_hz, first_seen_s, now_s, window_s) ==
    LET effective_window ==
            IF IsNone(first_seen_s) THEN 0
            ELSE effective_window_of(first_seen_s, now_s, window_s)
        pruned == prune_old(arrivals, now_s, window_s)
        recv_count == Len(pruned)
        expected_count == expected_hz * effective_window
    IN IF IsNone(first_seen_s) \/ effective_window <= 0
       THEN [drop |-> None, recv |-> 0, exp |-> 0, arrivals |-> arrivals]
       ELSE IF expected_count <= 0
       THEN [drop |-> None, recv |-> recv_count, exp |-> expected_count,
             arrivals |-> pruned]
       ELSE [drop |-> Some(clamp01([n |-> expected_count - recv_count,
                                     d |-> expected_count])),
             recv |-> recv_count, exp |-> expected_count, arrivals |-> pruned]

Sample(st) == [drop |-> st.drop, recv |-> st.recv, exp |-> st.exp]

\* drop >= DROP_STOP_THRESHOLD
ExceedsStop_AtThreshold(drop) == drop.n * 100 >= DROP_STOP_THRESHOLD_PCT * drop.d

\* drop > DROP_STOP_THRESHOLD
ExceedsStop(drop) == drop.n * 100 > DROP_STOP_THRESHOLD_PCT * drop.d

\* the stop condition of one feed (lines 361 and 369)
StopCondition(server_up, drop) ==
    server_up /\ ~IsNone(drop) /\ ExceedsStop(Val(drop))

\* monitoring_thread: time.sleep returns and now_s = time.time() is read
MonitorWake ==
    /\ mon.pc = "sleep"
    /\ now >= mon.due
    /\ mon' = [mon EXCEPT !.pc = "wait", !.now_s = now]
    /\ UNCHANGED <<wire, nlines, now, shared, lock, flags, logs, server_pc, conn, frame>>

\* monitoring_thread: `with lock:` entered
MonitorAcquire ==
    /\ mon.pc = "wait"
    /\ lock = {}
    /\ lock' = {MonitorId}
    /\ mon' = [mon EXCEPT !.pc = "locked"]
    /\ UNCHANGED <<wire, nlines, now, shared, flags, logs, server_pc, conn, frame>>

\* MonitorStats with the stop checks moved inside `with lock:`
MonitorStats_KeepsLock ==
    LET ts == _stream_drop_stats(thermal_arrivals, EXPECTED_THERMAL_HZ,
                                 first_thermal_seen_s, mon.now_s, MONITOR_WINDOW_S)
        is == _stream_drop_stats(imagery_arrivals, EXPECTED_IMAGERY_HZ,
                                 first_imagery_seen_s, mon.now_s, MONITOR_WINDOW_S)
    IN /\ mon.pc = "locked"
       /\ thermal_arrivals' = ts.arrivals
       /\ imagery_arrivals' = is.arrivals
       /\ mon' = [mon EXCEPT !.pc = "decide", !.now_s = 0,
                             !.thermal = Sample(ts), !.imagery = Sample(is)]
       /\ UNCHANGED <<wire, nlines, now, lock, last_thermal, last_imagery, last_thermal_rx_ns,
                      last_imagery_rx_ns, first_thermal_seen_s,
                      first_imagery_seen_s, flags, logs, server_pc, conn, frame>>

\* monitoring_thread: both _stream_drop_stats calls, then the lock is released
MonitorStats ==
    LET ts == _stream_drop_stats(thermal_arrivals, EXPECTED_THERMAL_HZ,
                                 first_thermal_seen_s, mon.now_s, MONITOR_WINDOW_S)
        is == _stream_drop_stats(imagery_arrivals, EXPECTED_IMAGERY_HZ,
                                 first_imagery_seen_s, mon.now_s, MONITOR_WINDOW_S)
    IN /\ mon.pc = "locked"
       /\ thermal_arrivals' = ts.arrivals
       /\ imagery_arrivals' = is.arrivals
       /\ mon' = [mon EXCEPT !.pc = "decide", !.now_s = 0,
                             !.thermal = Sample(ts), !.imagery = Sample(is)]
       /\ lock' = {}
       /\ UNCHANGED <<wire, nlines, now, last_thermal, last_imagery, last_thermal_rx_ns,
                      last_imagery_rx_ns, first_thermal_seen_s,
                      first_imagery_seen_s, flags, logs, server_pc, conn, frame>>

\* monitoring_thread: the two stop checks; without a stop the next sleep starts
MonitorDecide ==
    /\ mon.pc = "decide"
    /\ mon' = IF StopCondition(thermal_server_up, mon.thermal.drop)
              THEN [mon EXCEPT !.pc = "stop", !.stop = "thermal"]
              ELSE IF StopCondition(imagery_server_up, mon.imagery.drop)
              THEN [mon EXCEPT !.pc = "stop", !.stop = "imagery"]
              ELSE [mon EXCEPT !.pc = "sleep", !.due = now + MONITOR_WINDOW_S,
                               !.thermal = NoSample, !.imagery = NoSample]
    /\ UNCHANGED <<wire, nlines, now, shared, lock, flags, logs, server_pc, conn, frame>>

\* monitoring_thread: logfile.close() and sys.exit(2). Raised in a thread
\* that is not the main thread, SystemExit ends that thread and no other.
MonitorStop ==
    /\ mon.pc = "stop"
    /\ csv_file' = csv_file \o logfile.buf
    /\ logfile' = [open |-> FALSE, buf |-> <<>>]
    /\ mon' = [mon EXCEPT !.pc = "exited"]
    /\ UNCHANGED <<wire, nlines, now, shared, lock, flags, fusion_id, jsonl_file, server_pc,
                   conn, frame>>

\* The clock readings of the model: process start, and each deadline of the
\* monitor with the MaxLate seconds after it
Phase(t) == (t - 1 - MONITOR_START_DELAY_S) % MONITOR_WINDOW_S
Instants ==
    {t \in 1..MaxTime :
        t = 1 \/ (t > 1 + MONITOR_START_DELAY_S + MaxLate /\ Phase(t) <= MaxLate)}
NextInstant(t) ==
    CHOOSE u \in Instants : u > t /\ \A w \in Instants : w > t => u <= w

\* The clock moves to its next reading. The listeners start, and critical
\* sections and the monitor's checks run, in less than a second; a sleeping
\* monitor is woken, and gets the lock, at most MaxLate seconds after its
\* sleep has run out.
Tick ==
    /\ \E u \in Instants : u > now
    /\ \A f \in Feeds : server_pc[f] # "start"
    /\ lock = {}
    /\ mon.pc \notin {"locked", "decide", "stop"}
    /\ mon.pc \in {"sleep", "wait"} => NextInstant(now) <= mon.due + MaxLate
    /\ now' = NextInstant(now)
    /\ UNCHANGED <<wire, nlines, shared, lock, flags, logs, server_pc, conn, frame, mon>>

Next ==
    \/ \E f \in Feeds, ok \in BOOLEAN : server(f, ok)
    \/ \E f \in Feeds : Accept(f)
    \/ \E c \in Conns : \E line \in SpecLines(conn[c].feed) : ReadLine(c, line)
    \/ \E c \in Conns : ConnEOF(c)
    \/ \E c \in Conns : HandlerAcquire(c)
    \/ \E c \in Conns : HandlerUpdate(c)
    \/ \E c \in Conns : HandlerFlush(c)
    \/ \E c \in Conns : HandlerJsonl(c)
    \/ MonitorWake
    \/ MonitorAcquire
    \/ MonitorStats
    \/ MonitorDecide
    \/ MonitorStop
    \/ Tick

Spec == Init /\ [][Next]_vars

----------------------------------------------------------------------------
\* The traffic of one instant: both listeners are up, one connection per feed
\* is open, the clock stands still and the handlers take lines of every kind.
\* It starts either before any message (the monitor asleep), or at the
\* monitor's first deadline after one good message per feed at process start
\* (the monitor about to close the log and exit).

\* Messages of the thermal producer, sent at clock reading t
ThermalMsgs(t) ==
    { Dict(Absent, Absent, Absent, Flat(<<TEMP_THRESHOLD + 1>>), NoDets),
      Dict(Num(7), Num(t), Absent, Flat(<<TEMP_THRESHOLD>>), NoDets),
      Dict(Absent, Num(t), Num(1), Grid(<< <<50, 99>>, <<>>, <<150>> >>), NoDets),
      Dict(Absent, Absent, Absent, TextList, NoDets),
      Dict(Absent, Inf, Absent, Flat(<<150>>), NoDets),
      EmptyDict,
      ListMsg }

\* Messages of the imagery producer, sent at clock reading t
ImageryMsgs(t) ==
    { Dict(Absent, Absent, Absent, NoData, Dets(<<"fire">>)),
      Dict(Absent, Num(t + TIME_WINDOW_S), Absent, NoData, Dets(<<"smoke", "fire">>)),
      Dict(Absent, Num(t + TIME_WINDOW_S + 1), Absent, NoData, Dets(<<"fire">>)),
      Dict(Absent, Num(t), Absent, NoData, Dets(<<>>)),
      Dict(Num(7), Absent, Absent, NoData, NoDets),
      Dict(Absent, Text, Absent, NoData, Dets(<<"fire">>)),
      EmptyDict,
      ListMsg }

FusionLines(f, t) ==
    {BlankLine, BadLine, DeepLine}
      \cup {Json(m) : m \in IF f = "thermal" THEN ThermalMsgs(t) ELSE ImageryMsgs(t)}

\* the first deadline of the monitor
FirstDeadline == 1 + MONITOR_START_DELAY_S + MONITOR_WINDOW_S

\* the record of the evaluation of one good message per feed at process start
FirstRec ==
    EvalBody(GoodMsg("thermal"), GoodMsg("imagery"), Some(1), Some(1), 1, 1, 0).rec

\* what a monitor tick finds for a feed silent for a whole window
SilentSample ==
    [drop |-> Some([n |-> EXPECTED_THERMAL_HZ * MONITOR_WINDOW_S,
                    d |-> EXPECTED_THERMAL_HZ * MONITOR_WINDOW_S]),
     recv |-> 0, exp |-> EXPECTED_THERMAL_HZ * MONITOR_WINDOW_S]

OpenConns ==
    [c \in Conns |->
        IF c = 1 THEN [NoConn EXCEPT !.feed = "thermal", !.pc = "recv"]
        ELSE IF c = MaxConns THEN [NoConn EXCEPT !.feed = "imagery", !.pc = "recv"]
        ELSE NoConn]

FusionInit ==
    /\ lock = {}
    /\ thermal_arrivals = <<>> /\ imagery_arrivals = <<>>
    /\ thermal_server_up = TRUE /\ imagery_server_up = TRUE
    /\ logfile = [open |-> TRUE, buf |-> <<>>]
    /\ server_pc = [f \in Feeds |-> "accept"]
    /\ conn = OpenConns
    /\ nlines = 0
    /\ wire = NoWire
    /\ frame = NoRec
    /\ \/ /\ now = 1
          /\ last_thermal = NoneMsg /\ last_imagery = NoneMsg
          /\ last_thermal_rx_ns = None /\ last_imagery_rx_ns = None
          /\ first_thermal_seen_s = None /\ first_imagery_seen_s = None
          /\ fusion_id = 0
          /\ csv_file = <<>>
          /\ jsonl_file = <<>>
          /\ mon = [pc |-> "sleep", due |-> FirstDeadline, now_s |-> 0,
                    thermal |-> NoSample, imagery |-> NoSample, stop |-> "none"]
       \/ /\ now = FirstDeadline
          /\ last_thermal = GoodMsg("thermal") /\ last_imagery = GoodMsg("imagery")
          /\ last_thermal_rx_ns = Some(1) /\ last_imagery_rx_ns = Some(1)
          /\ first_thermal_seen_s = Some(1) /\ first_imagery_seen_s = Some(1)
          /\ fusion_id = 1
          /\ csv_file = <<CsvRow(FirstRec)>>
          /\ jsonl_file = <<FirstRec>>
          /\ mon = [pc |-> "stop", due |-> FirstDeadline, now_s |-> 0,
                    thermal |-> SilentSample, imagery |-> SilentSample,
                    stop |-> "thermal"]

FusionNext ==
    \/ \E c \in Conns : \E line \in FusionLines(conn[c].feed, now) : ReadLine(c, line)
    \/ \E c \in Conns : HandlerAcquire(c)
    \/ \E c \in Conns : HandlerUpdate(c)
    \/ \E c \in Conns : HandlerFlush(c)
    \/ \E c \in Conns : HandlerJsonl(c)
    \/ MonitorStop

FusionSpec == FusionInit /\ [][FusionNext]_vars

\* The second initial state of FusionSpec without its counters of lines
AtFirstStop ==
    /\ now = FirstDeadline
    /\ lock = {}
    /\ last_thermal = GoodMsg("thermal") /\ last_imagery = GoodMsg("imagery")
    /\ last_thermal_rx_ns = Some(1) /\ last_imagery_rx_ns = Some(1)
    /\ first_thermal_seen_s = Some(1) /\ first_imagery_seen_s = Some(1)
    /\ thermal_arrivals = <<>> /\ imagery_arrivals = <<>>
    /\ thermal_server_up /\ imagery_server_up
    /\ fusion_id = 1
    /\ logfile = [open |-> TRUE, buf |-> <<>>]
    /\ csv_file = <<CsvRow(FirstRec)>>
    /\ jsonl_file = <<FirstRec>>
    /\ conn[1].feed = "thermal" /\ conn[1].pc = "recv"
    /\ conn[MaxConns].feed = "imagery" /\ conn[MaxConns].pc = "recv"
    /\ mon = [pc |-> "stop", due |-> FirstDeadline, now_s |-> 0,
              thermal |-> SilentSample, imagery |-> SilentSample,
              stop |-> "thermal"]
\* Spec reaches that state (TLC finds this invariant violated)
FusionInitUnreachable == ~AtFirstStop

----------------------------------------------------------------------------
\* Properties of the fusion engine and the line reader (FusionSpec)

Gapless(log) == \A k \in 1..Len(log) : log[k].fusion_id = k - 1
IsPrefix(s, t) == Len(s) <= Len(t) /\ SubSeq(t, 1, Len(s)) = s
\* the rows handed to the CSV writer so far, flushed or not
CsvWritten == csv_file \o logfile.buf

\* C1: in each of the two logs the fusion_id values are 0, 1, 2, ... in
\* order, without a gap or a repeat, and a record once written stays as it
\* was written: each log only grows at its end.
C1_FusionIdsGapless ==
    /\ [](Gapless(CsvWritten) /\ Gapless(jsonl_file))
    /\ [][/\ IsPrefix(csv_file, csv_file')
          /\ IsPrefix(CsvWritten, CsvWritten')
          /\ IsPrefix(jsonl_file, jsonl_file')]_vars
\* three records in each log, the last one written after the first two
C1_ThreeRecordsLogged ==
    /\ Len(jsonl_file) >= 3 /\ Len(csv_file) >= 3
    /\ jsonl_file[3].fusion_id = 2 /\ csv_file[3].fusion_id = 2

\* a reading above the threshold among the leaves of "data"
HotLeaf(d) ==
    /\ d.t \in {"1d", "2d"}
    /\ \E r \in 1..Len(d.rows) : \E k \in 1..Len(d.rows[r]) :
          d.rows[r][k] > TEMP_THRESHOLD
\* a detection labelled "fire"
FireLabel(dets) ==
    dets.t = "list" /\ \E k \in 1..Len(dets.labels) : dets.labels[k] = "fire"
DecisionRule(rec) ==
    rec.decision <=>
       /\ rec.max_temp.k = "num" /\ rec.max_temp.v > TEMP_THRESHOLD
       /\ rec.imagery_fire
       /\ rec.dt_s <= TIME_WINDOW_S

\* C2: the decision of every evaluation is true exactly when max_temp is
\* above TEMP_THRESHOLD (strictly), the detections hold a fire label and
\* dt_s is at most TIME_WINDOW_S: for every record of either log by its own
\* fields, and for the evaluation in progress by the snapshot it was made
\* from. A reading equal to the threshold gives false, a skew equal to the
\* window gives true, no detections give false.
C2_DecisionIffAllThree ==
    /\ \A k \in 1..Len(jsonl_file) : DecisionRule(jsonl_file[k])
    /\ \A k \in 1..Len(CsvWritten) : DecisionRule(CsvWritten[k])
    /\ \A c \in Conns : conn[c].pc = "flush" =>
          /\ frame.decision <=>
                /\ HotLeaf(last_thermal.data)
                /\ FireLabel(last_imagery.detections)
                /\ frame.dt_s <= TIME_WINDOW_S
          /\ frame.max_temp = Fin(TEMP_THRESHOLD) => ~frame.decision
          /\ last_imagery.detections = Dets(<<>>) => ~frame.decision
\* a record with the skew exactly at the window decided true, and one with
\* the temperature exactly at the threshold (fire seen, skew in the window)
\* decided false
C2_BoundaryRecords ==
    /\ \E k \in 1..Len(jsonl_file) :
          jsonl_file[k].dt_s = TIME_WINDOW_S /\ jsonl_file[k].decision
    /\ \E k \in 1..Len(jsonl_file) :
          /\ jsonl_file[k].max_temp = Fin(TEMP_THRESHOLD)
          /\ jsonl_file[k].imagery_fire
          /\ jsonl_file[k].dt_s <= TIME_WINDOW_S
          /\ ~jsonl_file[k].decision

\* C3: no message ends a connection handler: whatever the evaluation raises
\* is caught inside evaluate, so a handler that runs on_msg returns from it
\* and reads on.
C3_EvaluationNeverKillsHandler ==
    [][\A c \in Conns : conn[c].pc = "locked" => conn'[c].pc # "dead"]_vars

\* C4: a line that cannot be parsed is discarded and the handler reads on:
\* after json.loads has rejected a line the handler is back in recv_lines,
\* waiting for the next line of the same connection.
C4_UnparsableLineKeepsConnection ==
    [][\A c \in Conns :
          conn'[c].nbad > conn[c].nbad => conn'[c].pc = "recv"]_vars

\* C10: once both feeds have received a message, every new message that is
\* a JSON object leads to one evaluation of the snapshot, and unless that
\* evaluation fails on the payload it writes one record (here: with the
\* tabular log still open, the row of that record).
C10_EveryMessageIsEvaluated ==
    [][\A c \in Conns :
          LET f == conn[c].feed
              t == IF f = "thermal" THEN conn[c].msg ELSE last_thermal
              i == IF f = "imagery" THEN conn[c].msg ELSE last_imagery
              ev == EvalBody(t, i, last_thermal_rx_ns, last_imagery_rx_ns,
                             now, now, fusion_id)
          IN (/\ conn[c].pc = "locked" /\ conn'[c].pc # "locked"
              /\ conn[c].msg.typ = "dict"
              /\ ~IsNone(first_thermal_seen_s') /\ ~IsNone(first_imagery_seen_s')
              /\ t.typ = "dict" /\ i.typ = "dict"
              /\ ev.exc = ""
              /\ logfile.open)
             => /\ conn'[c].pc = "flush"
                /\ Len(CsvWritten') = Len(CsvWritten) + 1
                /\ frame'.fusion_id = fusion_id]_vars

----------------------------------------------------------------------------
\* Properties of the health monitor and of the lock (Spec)

\* C5: the monitor's stop ends the whole process: once the monitor has run
\* its stop, no handler updates the shared state any more.
C5_StopEndsAllUpdates ==
    [][mon.pc = "exited" => UNCHANGED shared]_vars

\* what a monitor tick measured for feed f puts it over the stop threshold
OverThreshold(f) ==
    /\ ServerUp(f)
    /\ ~IsNone(FirstSeen(f))
    /\ ~IsNone(mon[f].drop)
    /\ 100 * (mon[f].exp - mon[f].recv) > DROP_STOP_THRESHOLD_PCT * mon[f].exp
AtThreshold(f) ==
    /\ mon[f].exp > 0
    /\ 100 * (mon[f].exp - mon[f].recv) = DROP_STOP_THRESHOLD_PCT * mon[f].exp

\* C6: a monitor tick stops exactly when some feed has its listener up, has
\* started and has a drop rate strictly above DROP_STOP_THRESHOLD, and the
\* feed it names is such a feed; a drop rate equal to the threshold triggers
\* nothing.
C6_StopIffAboveThreshold ==
    [][(mon.pc = "decide" /\ mon'.pc # "decide") =>
          /\ (mon'.pc = "stop") <=> (\E f \in Feeds : OverThreshold(f))
          /\ mon'.pc = "stop" => OverThreshold(mon'.stop)
          /\ mon'.pc # "stop" => mon'.pc = "sleep" /\ mon'.stop = "none"
          /\ \A f \in Feeds : AtThreshold(f) => mon'.stop # f]_vars
\* a tick that found thermal exactly at the threshold and imagery above it
\* has stopped on imagery
C6_ThresholdTickSeen ==
    /\ mon.pc = "stop" /\ mon.stop = "imagery"
    /\ thermal_server_up /\ ~IsNone(first_thermal_seen_s)
    /\ AtThreshold("thermal")

\* C7: a feed no message of which has arrived is measured as not started
\* (no drop rate) by every tick, and is never the feed the monitor stops on.
C7_NotStartedNeverStops ==
    \A f \in Feeds :
       IsNone(FirstSeen(f)) => IsNone(mon[f].drop) /\ mon.stop # f
\* at the second deadline the monitor stops on the thermal feed while the
\* imagery listener is up and imagery has never sent
C7_SilentFeedBesideStop ==
    /\ mon.pc = "stop" /\ mon.stop = "thermal"
    /\ now > FirstDeadline + MaxLate
    /\ imagery_server_up /\ IsNone(first_imagery_seen_s)
    /\ IsNone(mon.imagery.drop)

\* the thread th took the step
Mover(th) ==
    IF th = MonitorId
    THEN mon' # mon /\ conn' = conn
    ELSE /\ conn'[th] # conn[th] /\ mon' = mon
         /\ \A c \in Conns \ {th} : conn'[c] = conn[c]
\* the threads inside `with lock:` are the holders of the lock
LockDiscipline ==
    /\ Cardinality(lock) <= 1
    /\ \A c \in Conns : conn[c].pc \in {"locked", "flush", "jsonl"} <=> c \in lock
    /\ mon.pc = "locked" <=> MonitorId \in lock

\* C9 as stated: every write of the per-feed state, the server_up flags
\* included, is made by the thread that holds the lock.
C9_AllWritesUnderLock ==
    [][(shared' # shared \/ flags' # flags) => \E th \in lock : Mover(th)]_vars

\* C9, amended: last message, last arrival time, arrival history and
\* first-seen time are read and written only by the holder of the lock (a
\* handler inside on_msg and evaluate, or the monitor inside its statistics);
\* a server_up flag is written by its listener thread, which never takes the
\* lock.
C9_StoreAccessUnderLock ==
    /\ []LockDiscipline
    /\ [][shared' # shared => \E th \in lock : Mover(th)]_vars
    /\ [][flags' # flags =>
            /\ server_pc' # server_pc /\ lock' = lock
            /\ conn' = conn /\ mon' = mon]_vars
\* a handler in the middle of an evaluation holds the lock while the monitor
\* waits for it
C9_MonitorWaitsForHandler ==
    \E c \in Conns :
       conn[c].pc = "flush" /\ lock = {c} /\ mon.pc = "wait"

----------------------------------------------------------------------------
\* Progress. Every thread of the process is scheduled, and the clock moves:
\* a step that stays possible is taken.
Fairness ==
    /\ WF_vars(Tick)
    /\ WF_vars(MonitorWake) /\ WF_vars(MonitorAcquire) /\ WF_vars(MonitorStats)
    /\ WF_vars(MonitorDecide) /\ WF_vars(MonitorStop)
    /\ \A c \in Conns :
          /\ WF_vars(HandlerAcquire(c)) /\ WF_vars(HandlerUpdate(c))
          /\ WF_vars(HandlerFlush(c)) /\ WF_vars(HandlerJsonl(c))
    /\ \A f \in Feeds : WF_vars(\E ok \in BOOLEAN : server(f, ok))

LiveSpec == Spec /\ Fairness

\* feed f delivers nothing any more: the producers have sent their last line
\* and no message of f is waiting to be stored
Quiet(f) ==
    /\ nlines = MaxLines
    /\ \A c \in Conns : conn[c].feed = f => conn[c].pc \notin {"wait", "locked"}
\* feed f, its listener up, has started and has gone quiet before the
\* monitor's first tick is over
LossOf(f) ==
    /\ ServerUp(f) /\ ~IsNone(FirstSeen(f))
    /\ Quiet(f)
    /\ now <= FirstDeadline + MaxLate
    /\ mon.pc = "sleep"
\* the process is gone: the monitor has run its stop and no listener or
\* handler thread is left
ProcessEnded ==
    /\ mon.pc = "exited"
    /\ \A f \in Feeds : server_pc[f] # "accept"
    /\ \A c \in Conns : conn[c].pc \in {"unborn", "closed", "dead"}

\* C8: sustained loss is fatal: when a feed whose listener is up has started
\* and then delivers nothing any more, the controller process ends.
C8_SustainedLossIsFatal ==
    \A f \in Feeds : LossOf(f) ~> ProcessEnded

\* What the monitor does do on sustained loss: it reaches its stop (closes
\* the tabular log and leaves its loop).
LossReachesMonitorStop ==
    \A f \in Feeds : LossOf(f) ~> (mon.pc = "exited")

----------------------------------------------------------------------------
\* Further properties of the fusion engine (FusionSpec)

\* some feed has never received a message
SomeFeedUnset == IsNone(first_thermal_seen_s) \/ IsNone(first_imagery_seen_s)

\* C11: while a feed has never received a message an evaluation is a no-op:
\* nothing has been written to either log, fusion_id is 0, and the step that
\* stores a message and calls evaluate changes neither the logs nor the other
\* feed's state and returns to recv_lines.
C11_NoOpUntilBothFeedsSeen ==
    /\ [](SomeFeedUnset =>
            /\ fusion_id = 0 /\ CsvWritten = <<>> /\ jsonl_file = <<>>
            /\ \A c \in Conns : conn[c].pc \notin {"flush", "jsonl"})
    /\ [][\A c \in Conns :
            (conn[c].pc = "locked" /\ conn'[c].pc # "locked" /\ SomeFeedUnset') =>
               /\ UNCHANGED <<logs, frame>>
               /\ conn'[c].pc = "recv" /\ lock' = {}
               /\ conn[c].feed = "thermal" =>
                     UNCHANGED <<last_imagery, last_imagery_rx_ns, imagery_arrivals>>
               /\ conn[c].feed = "imagery" =>
                     UNCHANGED <<last_thermal, last_thermal_rx_ns, thermal_arrivals>>]_vars
\* the thermal handler has stored a JSON array and is back reading lines,
\* imagery never having sent
C11_StoredWithoutEvaluation ==
    /\ last_thermal = ListMsg /\ IsNone(first_imagery_seen_s)
    /\ conn[1].pc = "recv" /\ conn[1].ncalls = 2

----------------------------------------------------------------------------
\* One evaluation over every payload and every timing within the bounds:
\* imagery has delivered its message, the thermal handler has read one and
\* is about to store it and call evaluate.

\* Bounds of the payloads
MaxCells == 2
MaxRows == 2
MaxDets == 2

SeqsUpTo(S, n) == UNION {[1..k -> S] : k \in 0..n}
Temps == {TEMP_THRESHOLD, TEMP_THRESHOLD + 1}
\* a detection without the label "fire": another label, or an entry that is
\* no object or has no label ("")
Labels == {"fire", "smoke", ""}

DataVals ==
    {NoData, TextList, ScalarData}
      \cup {Flat(r) : r \in SeqsUpTo(Temps, MaxCells)}
      \cup {Grid(g) : g \in SeqsUpTo(SeqsUpTo(Temps, MaxCells), MaxRows) \ {<<>>}}
DetVals ==
    {NoDets, ScalarDets} \cup {Dets(l) : l \in SeqsUpTo(Labels, MaxDets)}
\* tx_ns: absent, zero, negative, in the past, in the future
TxVals == {Absent, Num(0), Num(0 - 1), Num(1), Num(5)}
ProcVals == {Absent, Num(1)}

HotData == Flat(<<TEMP_THRESHOLD + 1>>)
FireDets == Dets(<<"fire">>)

\* the pairs (thermal message about to be stored, imagery message stored);
\* every message carries a seq, so none is the empty object
EvalPairs ==
    {<<Dict(Num(1), Absent, Absent, d, NoDets),
       Dict(Num(1), Absent, Absent, NoData, FireDets)>> : d \in DataVals}
      \cup {<<Dict(Num(1), Absent, Absent, HotData, NoDets),
              Dict(Num(1), Absent, Absent, NoData, l)>> : l \in DetVals}
      \cup {<<Dict(Num(1), x[1], x[2], HotData, NoDets),
              Dict(Num(1), x[3], Absent, NoData, FireDets)>> :
                 x \in TxVals \X ProcVals \X TxVals}

EvalInit ==
    /\ \E p \in EvalPairs, i_rx \in {1, 2}, t_rx \in {2, 3}, late \in {0, 1} :
          /\ now = t_rx + late
          /\ last_imagery = p[2]
          /\ last_imagery_rx_ns = Some(i_rx)
          /\ first_imagery_seen_s = Some(i_rx)
          /\ imagery_arrivals = <<i_rx>>
          /\ conn = [OpenConns EXCEPT
                        ![1] = [@ EXCEPT !.pc = "wait", !.msg = p[1],
                                         !.rx_ns = t_rx, !.ncalls = 1],
                        ![MaxConns] = [@ EXCEPT !.ncalls = 1]]
    /\ last_thermal = NoneMsg /\ last_thermal_rx_ns = None
    /\ first_thermal_seen_s = None /\ thermal_arrivals = <<>>
    /\ lock = {}
    /\ thermal_server_up = TRUE /\ imagery_server_up = TRUE
    /\ fusion_id = 0
    /\ logfile = [open |-> TRUE, buf |-> <<>>]
    /\ csv_file = <<>>
    /\ jsonl_file = <<>>
    /\ server_pc = [f \in Feeds |-> "accept"]
    /\ nlines = 2
    /\ wire = NoWire
    /\ frame = NoRec
    /\ mon = [pc |-> "sleep", due |-> FirstDeadline, now_s |-> 0,
              thermal |-> NoSample, imagery |-> NoSample, stop |-> "none"]

EvalNext ==
    \/ \E c \in Conns : HandlerAcquire(c)
    \/ \E c \in Conns : HandlerUpdate(c)
    \/ \E c \in Conns : HandlerFlush(c)
    \/ \E c \in Conns : HandlerJsonl(c)

EvalSpec == EvalInit /\ [][EvalNext]_vars

\* the evaluation of the thermal message has returned (or has ended its thread)
EvalReturned == conn[1].pc \in {"recv", "dead"}

----------------------------------------------------------------------------
\* The latency analysis of the structured log

\* the components of a record that are measured one by one
measured(rec) ==
    rec.thermal_proc_ns + rec.imagery_proc_ns + rec.thermal_net_ns
      + rec.imagery_net_ns + rec.fusion_proc_ns

\* the synchronisation gap without its clamp at zero
sync_gap_Unclamped(rec) == rec.e2e_ns - measured(rec)

\* the synchronisation gap derived from a record
sync_gap(rec) == Max2(0, rec.e2e_ns - measured(rec))

----------------------------------------------------------------------------
\* Properties of one evaluation (EvalSpec)

Leaves(d) == {d.rows[r][k] : <<r, k>> \in
                 {x \in (1..Len(d.rows)) \X (1..MaxCells + 1) : x[2] <= Len(d.rows[x[1]])}}
SetMax(S) == CHOOSE x \in S : \A y \in S : y <= x
\* a payload of numbers, or an empty or absent one
NumericPayload(d) == d.t \in {"absent", "1d", "2d"}

\* C13: for every valid thermal payload, flat or nested, the evaluation
\* raises no error and records max_temp = the maximum of all numeric leaves,
\* and negative infinity when the payload is absent, an empty list or a
\* nested list without cells.
C13_MaxTempOverAllLeaves ==
    (EvalReturned /\ NumericPayload(last_thermal.data)) =>
        /\ Len(jsonl_file) = 1
        /\ jsonl_file[1].max_temp =
              IF Leaves(last_thermal.data) = {} THEN NegInf
              ELSE Fin(SetMax(Leaves(last_thermal.data)))

\* a thermal payload on which safe_max_temp returns
ThermalReturns(d) ==
    \/ d.t \in {"absent", "1d", "scalar"}
    \/ d.t = "2d" /\ \E r \in 1..Len(d.rows) : d.rows[r] # <<>>

\* C14: the imagery_fire of every record is true exactly when the stored
\* detections are a list with at least one entry labelled "fire"; whatever
\* the detections are (absent, empty, no list), the evaluation raises no
\* error and writes its record.
C14_FireIffSomeFireLabel ==
    /\ \A k \in 1..Len(jsonl_file) :
          jsonl_file[k].imagery_fire <=> FireLabel(last_imagery.detections)
    /\ (EvalReturned /\ ThermalReturns(last_thermal.data)) => Len(jsonl_file) = 1

\* a record of a list whose second detection only is a fire
C14_FireBehindSmoke ==
    /\ Len(jsonl_file) = 1
    /\ last_imagery.detections = Dets(<<"smoke", "fire">>)
    /\ jsonl_file[1].imagery_fire

\* the send time prescribed for a stored message
PrescribedSend(m, rx) ==
    IF m.tx_ns.t = "int" /\ m.tx_ns.v > 0 THEN m.tx_ns.v ELSE Val(rx)

\* C20: in every record each feed's send time is the message's tx_ns when
\* that is a positive integer and else (absent, zero, negative) the arrival
\* time stored for that feed; a message without tx_ns is evaluated and
\* recorded like any other.
C20_SendTimeOrArrival ==
    /\ \A k \in 1..Len(jsonl_file) :
          /\ jsonl_file[k].thermal_tx_ns = PrescribedSend(last_thermal, last_thermal_rx_ns)
          /\ jsonl_file[k].imagery_tx_ns = PrescribedSend(last_imagery, last_imagery_rx_ns)
    /\ (EvalReturned /\ ThermalReturns(last_thermal.data)) => Len(jsonl_file) = 1

\* a record of a thermal message with tx_ns = 0 and an imagery message
\* without tx_ns: both send times are the arrival times
C20_ZeroAndAbsentFallBack ==
    /\ Len(jsonl_file) = 1
    /\ last_thermal.tx_ns = Num(0) /\ last_imagery.tx_ns = Absent
    /\ jsonl_file[1].thermal_tx_ns = Val(last_thermal_rx_ns)
    /\ jsonl_file[1].imagery_tx_ns = Val(last_imagery_rx_ns)
    /\ Val(last_thermal_rx_ns) # Val(last_imagery_rx_ns)

----------------------------------------------------------------------------
\* Further properties of the logs (FusionSpec)

\* the evaluation that returns in this step, if handler c leaves evaluate:
\* what it computed ([exc, rec]; exc = "" when the decision was produced)
Returning(c) ==
    /\ conn[c].pc \in {"locked", "flush", "jsonl"}
    /\ conn'[c].pc \in {"recv", "dead"}
Computed(c) ==
    IF conn[c].pc = "locked"
    THEN IF Truthy(last_thermal') /\ Truthy(last_imagery')
         THEN EvalBody(last_thermal', last_imagery', last_thermal_rx_ns',
                       last_imagery_rx_ns', now, now, fusion_id)
         ELSE [exc |-> "no evaluation", rec |-> NoRec]
    ELSE [exc |-> "", rec |-> frame]

\* C15: when an evaluation that produced a decision returns, its record is
\* in the tabular log on disk and in the structured log.
C15_ReturnedDecisionIsDurable ==
    [][\A c \in Conns :
          (Returning(c) /\ Computed(c).exc = "") =>
             /\ \E k \in 1..Len(csv_file') : csv_file'[k] = CsvRow(Computed(c).rec)
             /\ \E k \in 1..Len(jsonl_file') : jsonl_file'[k] = Computed(c).rec]_vars

----------------------------------------------------------------------------
\* Further properties of the whole controller (Spec)

\* C16: the monitor holds the lock only in its statistics step, which reads
\* and prunes the two arrival histories and nothing else and ends by
\* releasing the lock; the stop decision, the close of the log handle and
\* the exit are taken without the lock and need no lock, also while a
\* handler holds it inside an evaluation.
C16_MonitorDecidesWithoutLock ==
    /\ [](MonitorId \in lock => mon.pc = "locked")
    /\ [](mon.pc = "decide" => ENABLED MonitorDecide)
    /\ [](mon.pc = "stop" => ENABLED MonitorStop)
    /\ [][(MonitorId \in lock /\ mon' # mon) =>
             /\ mon'.pc = "decide" /\ lock' = {}
             /\ UNCHANGED <<last_thermal, last_imagery, last_thermal_rx_ns,
                            last_imagery_rx_ns, first_thermal_seen_s,
                            first_imagery_seen_s, flags, logs>>]_vars
    /\ [][(mon.pc \in {"decide", "stop"} /\ mon' # mon) =>
             /\ MonitorId \notin lock /\ lock' = lock
             /\ UNCHANGED shared]_vars

\* the monitor has closed the log and exited while a handler was inside an
\* evaluation, holding the lock
C16_StopDuringEvaluation ==
    /\ mon.pc = "exited" /\ ~logfile.open
    /\ \E c \in Conns : lock = {c} /\ conn[c].pc = "flush"

\* every entry of a history is inside the window that ends at time t
AllInWindow(arrivals, t) ==
    \A k \in 1..Len(arrivals) : arrivals[k] >= t - MONITOR_WINDOW_S

\* C17: after every handler update of a feed (pruned at the arrival time of
\* the message) and after every monitor tick that measures the feed (pruned
\* at the monitor's now_s), the feed's history holds no timestamp older than
\* the monitoring window, however many connections deliver to the feed.
C17_HistoryWithinWindow ==
    [][/\ \A c \in Conns :
            (conn[c].pc = "locked" /\ conn'[c].pc # "locked") =>
               AllInWindow(Arrivals(conn[c].feed)', conn[c].rx_ns)
       /\ (mon.pc = "locked" /\ mon'.pc = "decide") =>
             \A f \in Feeds :
                ~IsNone(mon'[f].drop) => AllInWindow(Arrivals(f)', mon.now_s)]_vars

\* the monitor's statistics step, and the fraction it must report for a feed
\* with recv arrivals where exp were expected
Measures == mon.pc = "locked" /\ mon'.pc = "decide"
IsDrop(drop, recv, exp) ==
    /\ ~IsNone(drop)
    /\ 0 <= Val(drop).n /\ Val(drop).n <= Val(drop).d /\ Val(drop).d > 0
    /\ Val(drop).n * exp = Val(drop).d * (IF recv >= exp THEN 0 ELSE exp - recv)

\* C18 as stated: for a started feed every monitor tick reports
\* drop = clamp01(1 - received/expected) in [0,1], with received the entries
\* left in the history after pruning and expected = rate x window length.
C18_ExpectedOverWholeWindow ==
    [][Measures =>
         \A f \in Feeds :
            ~IsNone(FirstSeen(f)) =>
               /\ mon'[f].exp = ExpectedHz(f) * MONITOR_WINDOW_S
               /\ mon'[f].recv = Len(Arrivals(f)')
               /\ IsDrop(mon'[f].drop, mon'[f].recv, mon'[f].exp)]_vars

\* the part of the window since the feed's first message, at the monitor's
\* clock reading
EffectiveWindow(f) == Min2(MONITOR_WINDOW_S, Max2(0, mon.now_s - Val(FirstSeen(f))))

\* C18 (amended): for a started feed every monitor tick measures over the
\* effective window min(window, now - first arrival). If that is not
\* positive the feed is reported as not started and its history is left
\* alone; else received is the length of the history after prune_old,
\* expected = rate x effective window, and the reported drop is
\* clamp01(1 - received/expected), a value in [0,1].
C18_ExpectedOverEffectiveWindow ==
    [][Measures =>
         \A f \in Feeds :
            ~IsNone(FirstSeen(f)) =>
               IF EffectiveWindow(f) <= 0
               THEN /\ mon'[f] = NoSample
                    /\ Arrivals(f)' = Arrivals(f)
               ELSE /\ Arrivals(f)' = prune_old(Arrivals(f), mon.now_s, MONITOR_WINDOW_S)
                    /\ mon'[f].exp = ExpectedHz(f) * EffectiveWindow(f)
                    /\ mon'[f].recv = Len(Arrivals(f)')
                    /\ IsDrop(mon'[f].drop, mon'[f].recv, mon'[f].exp)]_vars

\* a tick one second after the feed's first message, with more arrivals than
\* that second's expected count: the estimate is clamped to 0
C18_BurstClampedToZero ==
    /\ mon.pc = "decide"
    /\ mon.thermal.exp = EXPECTED_THERMAL_HZ
    /\ mon.thermal.recv > mon.thermal.exp
    /\ mon.thermal.drop = Some([n |-> 0, d |-> 1])

\* C19: a listener whose bind has failed stays down for good: its feed's
\* server_up flag is false, the feed has no connection, is never seen, is
\* reported as not started at every tick and is never the cause of a stop;
\* the other feed's listener still accepts connections and the monitor
\* still wakes at its deadlines.
C19_BindFailureIsolated ==
    /\ [](\A f \in Feeds :
             server_pc[f] = "down" =>
                /\ ~ServerUp(f)
                /\ IsNone(FirstSeen(f)) /\ Arrivals(f) = <<>>
                /\ mon[f] = NoSample /\ mon.stop # f
                /\ \A c \in Conns : conn[c].feed # f)
    /\ [](\A f, g \in Feeds :
             (server_pc[f] = "down" /\ server_pc[g] = "accept"
                /\ \E c \in Conns : conn[c].pc = "unborn") => ENABLED Accept(g))
    /\ []((\E f \in Feeds : server_pc[f] = "down") =>
             (mon.pc = "sleep" /\ now >= mon.due => ENABLED MonitorWake))
    /\ [][\A f \in Feeds : server_pc[f] = "down" => server_pc'[f] = "down"]_vars

\* the thermal bind has failed; imagery delivers, and the monitor is at its
\* second tick with a drop rate for imagery and none for thermal
C19_OtherFeedMonitored ==
    /\ server_pc["thermal"] = "down"
    /\ mon.pc = "decide" /\ mon.due > FirstDeadline
    /\ ~IsNone(mon.imagery.drop) /\ IsNone(mon.thermal.drop)

----------------------------------------------------------------------------
\* Further properties of one evaluation (EvalSpec)

\* the delay between a send time and an arrival time, never negative
DelayOrZero(rx, tx) == IF rx > tx THEN rx - tx ELSE 0
\* the message gave no usable send time: the arrival time was taken
FellBack(m) == ~(m.tx_ns.t = "int" /\ m.tx_ns.v > 0)

\* C21: in every record each feed's network delay is
\* max(0, arrival time - send time) of the record's own fields: it is never
\* negative, also when the send time is later than the arrival, and it is 0
\* when the send time fell back to the arrival time.
C21_NetDelayClamped ==
    \A k \in 1..Len(jsonl_file) :
        LET r == jsonl_file[k] IN
        /\ r.thermal_net_ns = DelayOrZero(r.thermal_rx_ns, r.thermal_tx_ns)
        /\ r.imagery_net_ns = DelayOrZero(r.imagery_rx_ns, r.imagery_tx_ns)
        /\ r.thermal_net_ns >= 0 /\ r.imagery_net_ns >= 0
        /\ FellBack(last_thermal) => r.thermal_net_ns = 0
        /\ FellBack(last_imagery) => r.imagery_net_ns = 0

\* a record of a thermal message stamped later than it arrived, beside an
\* imagery message with a real delay
C21_SendAfterArrival ==
    /\ Len(jsonl_file) = 1
    /\ jsonl_file[1].thermal_tx_ns > jsonl_file[1].thermal_rx_ns
    /\ jsonl_file[1].thermal_net_ns = 0
    /\ jsonl_file[1].imagery_net_ns > 0

----------------------------------------------------------------------------
\* The framing of recv_lines, byte by byte: one connection's stream is read
\* in chunks of any size, decoded chunk by chunk, split at the newlines, and
\* every line that parses is handed to the callback (collected in wire.out).

RecvSize == 4096
\* length of the streams
MaxStream == 5

\* Bytes: an ASCII letter, a space, a newline, a double quote, and the two
\* bytes C3 A9 of the UTF-8 encoding of one non-ASCII letter
ByteVals == {"a", "sp", "nl", "q", "c3", "a9"}
ValidUtf8(s) ==
    \A k \in 1..Len(s) :
        /\ s[k] = "c3" => (k < Len(s) /\ s[k + 1] = "a9")
        /\ s[k] = "a9" => (k > 1 /\ s[k - 1] = "c3")
\* streams of newline-terminated lines in UTF-8
Streams ==
    {s \in SeqsUpTo(ByteVals, MaxStream) :
        s # <<>> /\ s[Len(s)] = "nl" /\ ValidUtf8(s)}

\* chunk.decode(errors="ignore"): a complete C3 A9 is the letter "e9"; a C3
\* not followed by its continuation byte in the same chunk, and an A9
\* without its lead byte, are dropped
RECURSIVE decode(_)
decode(chunk) ==
    IF chunk = <<>> THEN <<>>
    ELSE IF chunk[1] = "c3"
    THEN IF Len(chunk) >= 2 /\ chunk[2] = "a9"
         THEN <<"e9">> \o decode(SubSeq(chunk, 3, Len(chunk)))
         ELSE decode(Tail(chunk))
    ELSE IF chunk[1] = "a9" THEN decode(Tail(chunk))
    ELSE <<chunk[1]>> \o decode(Tail(chunk))

\* line.strip()
RECURSIVE strip(_)
strip(text) ==
    IF text = <<>> THEN text
    ELSE IF text[1] = "sp" THEN strip(Tail(text))
    ELSE IF text[Len(text)] = "sp" THEN strip(SubSeq(text, 1, Len(text) - 1))
    ELSE text

\* json.loads of a line of text. The lines stand for JSON strings without
\* their enclosing quotes: a quote inside ends the string early and the
\* rest is extra data (JSONDecodeError); else the message is the string.
loads_text(text) ==
    IF \E k \in 1..Len(text) : text[k] = "q"
    THEN [exc |-> "JSONDecodeError", msg |-> <<>>]
    ELSE [exc |-> "", msg |-> text]

\* `while "\n" in buf`: lines are split off, stripped, empty ones skipped,
\* parsed, and the messages handed to on_msg: [buf, out]
RECURSIVE split_lines(_, _)
split_lines(buf, out) ==
    IF \A k \in 1..Len(buf) : buf[k] # "nl"
    THEN [buf |-> buf, out |-> out]
    ELSE LET k == CHOOSE j \in 1..Len(buf) :
                     buf[j] = "nl" /\ \A h \in 1..(j - 1) : buf[h] # "nl"
             line == strip(SubSeq(buf, 1, k - 1))
             rest == SubSeq(buf, k + 1, Len(buf))
         IN IF line = <<>> \/ loads_text(line).exc # ""
            THEN split_lines(rest, out)
            ELSE split_lines(rest, Append(out, loads_text(line).msg))

\* one turn of the outer loop of recv_lines on a chunk that is not empty
recv_chunk(buf, out, chunk) == split_lines(buf \o decode(chunk), out)

\* recv_lines on a whole sequence of chunks: the messages handed to on_msg
RECURSIVE recv_lines(_, _, _)
recv_lines(chunks, buf, out) ==
    IF chunks = <<>> THEN out
    ELSE LET r == recv_chunk(buf, out, chunks[1])
         IN recv_lines(Tail(chunks), r.buf, r.out)

\* every way of cutting a stream into reads
RECURSIVE Chunkings(_)
Chunkings(s) ==
    IF s = <<>> THEN {<<>>}
    ELSE UNION {{<<SubSeq(s, 1, n)>> \o c : c \in Chunkings(SubSeq(s, n + 1, Len(s)))} :
                   n \in 1..Min2(Len(s), RecvSize)}

\* conn.recv(4096) returns the next n bytes, and the loop body runs on them
Recv(n) ==
    /\ wire.pc = "recv"
    /\ n <= Len(wire.rest) /\ n <= RecvSize
    /\ LET r == recv_chunk(wire.buf, wire.out, SubSeq(wire.rest, 1, n))
       IN wire' = [wire EXCEPT !.rest = SubSeq(wire.rest, n + 1, Len(wire.rest)),
                               !.buf = r.buf, !.out = r.out]
    /\ UNCHANGED <<nlines, now, shared, lock, flags, logs, server_pc, conn, frame, mon>>

\* conn.recv returns b"": recv_lines returns
RecvEOF ==
    /\ wire.pc = "recv"
    /\ wire.rest = <<>>
    /\ wire' = [wire EXCEPT !.pc = "closed"]
    /\ UNCHANGED <<nlines, now, shared, lock, flags, logs, server_pc, conn, frame, mon>>

\* a connection of the thermal feed whose stream is about to be read
FramingInit ==
    /\ wire \in {[pc |-> "recv", all |-> s, rest |-> s, buf |-> <<>>, out |-> <<>>] :
                    s \in Streams}
    /\ now = 1
    /\ last_thermal = NoneMsg /\ last_imagery = NoneMsg
    /\ last_thermal_rx_ns = None /\ last_imagery_rx_ns = None
    /\ lock = {}
    /\ thermal_arrivals = <<>> /\ imagery_arrivals = <<>>
    /\ first_thermal_seen_s = None /\ first_imagery_seen_s = None
    /\ thermal_server_up = TRUE /\ imagery_server_up = TRUE
    /\ fusion_id = 0
    /\ logfile = [open |-> TRUE, buf |-> <<>>]
    /\ csv_file = <<>>
    /\ jsonl_file = <<>>
    /\ server_pc = [f \in Feeds |-> "accept"]
    /\ conn = OpenConns
    /\ nlines = 0
    /\ frame = NoRec
    /\ mon = [pc |-> "sleep", due |-> FirstDeadline, now_s |-> 0,
              thermal |-> NoSample, imagery |-> NoSample, stop |-> "none"]

FramingNext ==
    \/ \E n \in 1..MaxStream : Recv(n)
    \/ RecvEOF

FramingSpec == FramingInit /\ [][FramingNext]_vars

----------------------------------------------------------------------------
\* Properties of the framing (FramingSpec)

\* C22: the messages handed to the callback do not depend on the chunking:
\* when the stream has been read to its end, the sequence delivered is the
\* one that any other way of cutting the same stream into reads delivers.
C22_FramingIgnoresChunking ==
    wire.pc = "closed" =>
        \A ch \in Chunkings(wire.all) : recv_lines(ch, <<>>, <<>>) = wire.out

----------------------------------------------------------------------------
\* Further properties of the store (FusionSpec)

Started(f) == ~IsNone(FirstSeen(f))

\* C23: a feed is not started exactly as long as no message of it has been
\* received and stored; the handler step that stores its first message sets the
\* first-seen time to that message's arrival time; once set, the first-seen
\* time never changes, so a started feed stays started; a feed named as the
\* cause of a stop has started.
C23_FeedStartsOnce ==
    /\ [](\A f \in Feeds :
             /\ Started(f) <=> ~IsNone(LastRx(f))
             /\ mon.stop = f => Started(f))
    /\ [][\A f \in Feeds :
             /\ Started(f) => FirstSeen(f)' = FirstSeen(f)
             /\ (~Started(f) /\ Started(f)') =>
                   \E c \in Conns :
                      /\ conn[c].feed = f /\ conn[c].pc = "locked"
                      /\ FirstSeen(f)' = Some(conn[c].rx_ns)
                      /\ Last(f)' = conn[c].msg]_vars

\* the feed started at process start and a message that arrived at the
\* monitor's first deadline has been stored: the first-seen time is the old one
C23_LaterMessageStored ==
    /\ first_thermal_seen_s = Some(1)
    /\ last_thermal_rx_ns = Some(FirstDeadline)

----------------------------------------------------------------------------
\* Further properties of the connections (Spec)

\* C24: the step in which a handler sees the end of its stream ends that
\* handler and changes nothing else: the store, the lock, the logs, the
\* listeners, the monitor and every other handler are as before, so what
\* they could do before they can still do; the closed handler takes no
\* further step.
C24_EndOfStreamEndsOneHandler ==
    /\ [][\A c \in Conns :
             (conn[c].pc = "recv" /\ conn'[c].pc = "closed") =>
                /\ UNCHANGED <<shared, lock, flags, logs, server_pc, mon, frame, now>>
                /\ \A d \in Conns \ {c} : conn'[d] = conn[d]]_vars
    /\ [][\A c \in Conns : conn[c].pc = "closed" => conn'[c] = conn[c]]_vars
    /\ [](\A f \in Feeds :
             (server_pc[f] = "accept" /\ \E c \in Conns : conn[c].pc = "unborn")
                => ENABLED Accept(f))

\* the thermal connection has ended; the imagery handler is inside a later
\* evaluation, after a first record
C24_OthersGoOn ==
    /\ conn[1].pc = "closed"
    /\ \E d \in Conns : conn[d].pc = "jsonl"
    /\ fusion_id >= 1
    /\ server_pc["thermal"] = "accept"

----------------------------------------------------------------------------
\* Malformed payloads (FusionSpec)

Other(f) == IF f = "thermal" THEN "imagery" ELSE "thermal"
\* the snapshot that the evaluation triggered by handler c works on, and
\* what the evaluation makes of it
SnapT(c) == IF conn[c].feed = "thermal" THEN conn[c].msg ELSE last_thermal
SnapI(c) == IF conn[c].feed = "imagery" THEN conn[c].msg ELSE last_imagery
SnapEval(c) ==
    EvalBody(SnapT(c), SnapI(c),
             IF conn[c].feed = "thermal" THEN Some(conn[c].rx_ns) ELSE last_thermal_rx_ns,
             IF conn[c].feed = "imagery" THEN Some(conn[c].rx_ns) ELSE last_imagery_rx_ns,
             now, now, fusion_id)
\* a message on which every evaluation fails, whatever the other feed holds
Malformed(f, m) ==
    IF f = "thermal"
    THEN EvalBody(m, GoodMsg("imagery"), Some(1), Some(1), 1, 1, 0).exc # ""
    ELSE EvalBody(GoodMsg("thermal"), m, Some(1), Some(1), 1, 1, 0).exc # ""
\* handler c stores its message and its evaluation runs to its end or fails
Evaluates(c) ==
    /\ conn[c].pc = "locked" /\ conn'[c].pc # "locked"
    /\ Truthy(SnapT(c)) /\ Truthy(SnapI(c))

\* C25: while a malformed message is the latest of its feed, an evaluation
\* triggered by a well-formed message of the other feed does not end that
\* handler; and once both feeds hold well-formed messages again, the
\* evaluation writes a record whose fusion_id is the number of records
\* written before it.
C25_MalformedDoesNotPoison ==
    [][\A c \in Conns :
          /\ (/\ Evaluates(c)
              /\ ~Malformed(conn[c].feed, conn[c].msg)
              /\ Malformed(Other(conn[c].feed), Last(Other(conn[c].feed))))
                => conn'[c].pc # "dead"
          /\ (/\ Evaluates(c)
              /\ ~Malformed(conn[c].feed, conn[c].msg)
              /\ ~Malformed(Other(conn[c].feed), Last(Other(conn[c].feed)))
              /\ logfile.open)
                => /\ conn'[c].pc = "flush"
                   /\ frame'.fusion_id = Len(CsvWritten)
                   /\ CsvWritten' = Append(CsvWritten, CsvRow(frame'))]_vars

\* C26: an evaluation that fails on its payload leaves the logs alone: no
\* row is handed to the tabular log or reaches its file, no record is
\* appended to the structured log, fusion_id keeps its value, and the
\* handler is out of evaluate in the same step.
C26_FailedEvaluationLogsNothing ==
    [][\A c \in Conns :
          (Evaluates(c) /\ SnapEval(c).exc # "") =>
             /\ UNCHANGED <<fusion_id, logfile, csv_file, jsonl_file>>
             /\ conn'[c].pc \in {"recv", "dead"}]_vars

\* after a first record, the thermal handler has stored a list of strings
\* and is reading again: the logs hold the first record only
C26_SkippedAfterFirstRecord ==
    /\ last_thermal.data = TextList
    /\ conn[1].pc = "recv" /\ conn[1].ncalls = 2
    /\ fusion_id = 1 /\ Len(jsonl_file) = 1 /\ Len(CsvWritten) = 1

----------------------------------------------------------------------------
\* The snapshot of an evaluation (FusionSpec)

InEvaluate(c) == conn[c].pc \in {"flush", "jsonl"}

\* C27: a feed's message and arrival time are stored together, by one step
\* of a handler of that feed holding the lock; while an evaluation is
\* between its computation and the end of its log writes, its handler holds
\* the lock, no other handler is inside on_msg, the store is what the
\* evaluation computed its record from (each feed's message with the
\* arrival time of that same message), and no step changes the store.
C27_EvaluationSeesOneSnapshot ==
    /\ [](\A c \in Conns :
             InEvaluate(c) =>
                /\ lock = {c}
                /\ \A d \in Conns \ {c} : conn[d].pc \notin {"locked", "flush", "jsonl"}
                /\ frame = EvalBody(last_thermal, last_imagery, last_thermal_rx_ns,
                                    last_imagery_rx_ns, now, now, fusion_id).rec
                /\ frame.thermal_rx_ns = Val(last_thermal_rx_ns)
                /\ frame.imagery_rx_ns = Val(last_imagery_rx_ns))
    /\ [][(\E c \in Conns : InEvaluate(c)) => UNCHANGED shared]_vars
    /\ [][\A f \in Feeds :
             (Last(f)' # Last(f) \/ LastRx(f)' # LastRx(f)) =>
                \E c \in Conns :
                   /\ conn[c].feed = f /\ conn[c].pc = "locked" /\ lock = {c}
                   /\ Last(f)' = conn[c].msg
                   /\ LastRx(f)' = Some(conn[c].rx_ns)]_vars

\* the thermal handler is at the end of an evaluation of a message that
\* arrived at the monitor's first deadline, paired with the imagery message
\* of process start, while the imagery handler waits with a new message
C27_UpdateHeldBack ==
    /\ conn[1].pc = "jsonl"
    /\ conn[MaxConns].pc = "wait"
    /\ frame.thermal_rx_ns = FirstDeadline /\ frame.imagery_rx_ns = 1

----------------------------------------------------------------------------
\* The order of one connection's messages (FusionSpec)

\* C28: a handler takes a line off its stream only when it is in
\* recv_lines with no callback running; while the callback of a message
\* runs (waiting for the lock, storing, evaluating, logging) the handler
\* takes no further line and the message it holds stays as it is until it
\* is stored, so the store receives the messages of one connection one by
\* one in the order of the stream.
C28_OneMessageAtATime ==
    /\ [][\A c \in Conns :
             (conn'[c].ncalls # conn[c].ncalls \/ conn'[c].nbad # conn[c].nbad) =>
                /\ conn[c].pc = "recv"
                /\ conn'[c].ncalls + conn'[c].nbad = conn[c].ncalls + conn[c].nbad + 1]_vars
    /\ [][\A c \in Conns :
             (conn[c].pc \in {"wait", "locked"} /\ conn'[c].pc \in {"wait", "locked"}) =>
                conn'[c].msg = conn[c].msg /\ conn'[c].rx_ns = conn[c].rx_ns]_vars
    /\ [][\A c \in Conns :
             (conn[c].pc = "locked" /\ conn'[c].pc # "locked") =>
                Last(conn[c].feed)' = conn[c].msg]_vars
    /\ [](\A c \in Conns : conn[c].pc = "recv" => conn[c].msg = NoneMsg)

\* the thermal handler holds its second message and is blocked behind the
\* evaluation triggered by the imagery handler
C28_SecondMessageBlocked ==
    /\ conn[1].pc = "wait" /\ conn[1].ncalls = 2
    /\ lock = {MaxConns} /\ conn[MaxConns].pc = "flush"

----------------------------------------------------------------------------
\* What a handler's update changes (FusionSpec)

\* C29: the step in which a handler stores its message makes that message,
\* as it is, the last message of its feed, sets the feed's arrival time to
\* the message's, appends that time to the feed's history and sets the
\* first-seen time if there was none; the other feed's last message,
\* arrival time, history and first-seen time are unchanged.
C29_UpdateTouchesOwnFeedOnly ==
    [][\A c \in Conns :
          (conn[c].pc = "locked" /\ conn'[c].pc # "locked") =>
             LET f == conn[c].feed
                 g == Other(f)
             IN /\ Last(f)' = conn[c].msg
                /\ LastRx(f)' = Some(conn[c].rx_ns)
                /\ Arrivals(f)' # <<>>
                /\ Arrivals(f)'[Len(Arrivals(f)')] = conn[c].rx_ns
                /\ FirstSeen(f)' = IF Started(f) THEN FirstSeen(f) ELSE Some(conn[c].rx_ns)
                /\ Last(g)' = Last(g) /\ LastRx(g)' = LastRx(g)
                /\ Arrivals(g)' = Arrivals(g) /\ FirstSeen(g)' = FirstSeen(g)]_vars

\* a thermal message with a proc_ns has been evaluated, and a later thermal
\* message without one has taken its place
C29_FieldsNotCarriedOver ==
    /\ \E k \in 1..Len(jsonl_file) : jsonl_file[k].thermal_proc_ns = 1
    /\ last_thermal.typ = "dict" /\ last_thermal.proc_ns = Absent
    /\ last_thermal.data # NoData
    /\ conn[1].pc = "recv"

----------------------------------------------------------------------------
\* The start of a feed under the monitor (Spec)

\* the arrivals of feed f that lie in the window ending at the monitor's
\* clock reading, and the time since the feed's first message, at most the window
InWindowCount(f) ==
    Cardinality({k \in 1..Len(Arrivals(f)) :
                    Arrivals(f)[k] >= mon.now_s - MONITOR_WINDOW_S})
Age(f) ==
    IF mon.now_s - Val(FirstSeen(f)) > MONITOR_WINDOW_S THEN MONITOR_WINDOW_S
    ELSE mon.now_s - Val(FirstSeen(f))
\* feed f has delivered at least its expected rate since its first message
OnRate(f) == InWindowCount(f) >= ExpectedHz(f) * Age(f)

\* C30: a tick that measures a started feed which has delivered at its
\* expected rate since its first message, however short that time, reports
\* a drop rate of 0 for it; a started feed whose first message is not older
\* than the tick's clock reading is reported as not started; and the
\* monitor stops for a feed only if the tick counted less than half of what
\* it expected over the time since the first message.
C30_NoStartupFalsePositive ==
    /\ [][Measures =>
            \A f \in Feeds :
               Started(f) =>
                  /\ Age(f) <= 0 => mon'[f] = NoSample
                  /\ (Age(f) > 0 /\ OnRate(f)) =>
                        /\ ~IsNone(mon'[f].drop) /\ Val(mon'[f].drop).n = 0
                        /\ ~StopCondition(ServerUp(f), mon'[f].drop)]_vars
    /\ [](\A f \in Feeds :
             (mon.pc = "stop" /\ mon.stop = f) =>
                /\ Started(f)
                /\ 2 * mon[f].recv < mon[f].exp
                /\ mon[f].exp <= ExpectedHz(f) * MONITOR_WINDOW_S)

\* one second after its first message the thermal feed has delivered the
\* two messages of that second, and the tick reports no loss
C30_OnRateAfterOneSecond ==
    /\ mon.pc = "decide"
    /\ first_thermal_seen_s = Some(FirstDeadline)
    /\ mon.thermal.exp = EXPECTED_THERMAL_HZ /\ mon.thermal.recv = EXPECTED_THERMAL_HZ
    /\ mon.thermal.drop = Some([n |-> 0, d |-> EXPECTED_THERMAL_HZ])

----------------------------------------------------------------------------
\* The fusion_ids of a log
IdsOf(log) == {log[k].fusion_id : k \in 1..Len(log)}
\* no handler is between the start of evaluate and its return
NoEvaluationInProgress == \A c \in Conns : conn[c].pc \notin {"locked", "flush", "jsonl"}

\* C31: whenever no fusion evaluation is in progress, the tabular log and the
\* structured log hold the same set of fusion_ids, also when the monitor's
\* stop path closes the tabular log handle while an evaluation runs: no
\* fusion_id is in one log and not in the other.
C31_LogsHoldSameIds ==
    NoEvaluationInProgress => IdsOf(CsvWritten) = IdsOf(jsonl_file)

----------------------------------------------------------------------------
\* a history in non-decreasing timestamp order, the order in which prune_old
\* (popping from the left only) removes every entry older than the cutoff
NonDecreasing(arrivals) ==
    \A j, k \in 1..Len(arrivals) : j < k => arrivals[j] <= arrivals[k]

\* C32: each feed's arrivals history is always in non-decreasing timestamp
\* order, and the feed's last arrival timestamp never decreases, also when
\* several connections deliver to the feed and stamp their arrivals before
\* they acquire the lock.
C32_ArrivalsInTimeOrder ==
    /\ [](\A f \in Feeds : NonDecreasing(Arrivals(f)))
    /\ [][\A f \in Feeds :
             ~IsNone(LastRx(f)) =>
                /\ ~IsNone(LastRx(f)')
                /\ Val(LastRx(f)') >= Val(LastRx(f))]_vars

----------------------------------------------------------------------------
\* The monitor's first tick beside the traffic of FusionSpec: one good
\* message per feed was evaluated at process start, the monitor has woken at
\* its first deadline and is about to enter `with lock:`, and the handlers
\* take lines of every kind, those that make evaluate raise an exception it
\* does not catch included.
LockInit ==
    /\ lock = {}
    /\ now = FirstDeadline
    /\ thermal_arrivals = <<1>> /\ imagery_arrivals = <<1>>
    /\ thermal_server_up = TRUE /\ imagery_server_up = TRUE
    /\ logfile = [open |-> TRUE, buf |-> <<>>]
    /\ server_pc = [f \in Feeds |-> "accept"]
    /\ conn = OpenConns
    /\ nlines = 0
    /\ wire = NoWire
    /\ frame = NoRec
    /\ last_thermal = GoodMsg("thermal") /\ last_imagery = GoodMsg("imagery")
    /\ last_thermal_rx_ns = Some(1) /\ last_imagery_rx_ns = Some(1)
    /\ first_thermal_seen_s = Some(1) /\ first_imagery_seen_s = Some(1)
    /\ fusion_id = 1
    /\ csv_file = <<CsvRow(FirstRec)>>
    /\ jsonl_file = <<FirstRec>>
    /\ mon = [pc |-> "wait", due |-> FirstDeadline, now_s |-> FirstDeadline,
              thermal |-> NoSample, imagery |-> NoSample, stop |-> "none"]

LockNext ==
    \/ \E c \in Conns : \E line \in FusionLines(conn[c].feed, now) : ReadLine(c, line)
    \/ \E c \in Conns : HandlerAcquire(c)
    \/ \E c \in Conns : HandlerUpdate(c)
    \/ \E c \in Conns : HandlerFlush(c)
    \/ \E c \in Conns : HandlerJsonl(c)
    \/ MonitorAcquire
    \/ MonitorStats
    \/ MonitorDecide
    \/ MonitorStop

LockSpec == LockInit /\ [][LockNext]_vars

\* The initial state of LockSpec without its counters of lines
AtFirstWake ==
    /\ now = FirstDeadline
    /\ lock = {}
    /\ last_thermal = GoodMsg("thermal") /\ last_imagery = GoodMsg("imagery")
    /\ last_thermal_rx_ns = Some(1) /\ last_imagery_rx_ns = Some(1)
    /\ first_thermal_seen_s = Some(1) /\ first_imagery_seen_s = Some(1)
    /\ thermal_arrivals = <<1>> /\ imagery_arrivals = <<1>>
    /\ thermal_server_up /\ imagery_server_up
    /\ fusion_id = 1
    /\ logfile = [open |-> TRUE, buf |-> <<>>]
    /\ csv_file = <<CsvRow(FirstRec)>>
    /\ jsonl_file = <<FirstRec>>
    /\ conn[1].feed = "thermal" /\ conn[1].pc = "recv"
    /\ conn[MaxConns].feed = "imagery" /\ conn[MaxConns].pc = "recv"
    /\ mon = [pc |-> "wait", due |-> FirstDeadline, now_s |-> FirstDeadline,
              thermal |-> NoSample, imagery |-> NoSample, stop |-> "none"]
\* Spec reaches that state (TLC finds this invariant violated)
LockInitUnreachable == ~AtFirstWake

\* the threads that have ended: a handler whose connection was closed or
\* that an exception has killed, and the monitor after its stop
Ended(th) ==
    IF th = MonitorId THEN mon.pc = "exited"
    ELSE conn[th].pc \in {"closed", "dead"}
\* the thread is inside its critical section
InCritical(th) ==
    IF th = MonitorId THEN mon.pc = "locked"
    ELSE conn[th].pc \in {"locked", "flush", "jsonl"}
\* the next step of a thread inside its critical section
CriticalStep(th) ==
    IF th = MonitorId THEN MonitorStats
    ELSE HandlerUpdate(th) \/ HandlerFlush(th) \/ HandlerJsonl(th)

====
